---- MODULE Spec2Model ----
(***************************************************************************)
(* A model of the Cvent batch image downloader (src/App.tsx): the task    *)
(* collection, the filter effect, the manual selection handlers, the      *)
(* bounded-concurrency download scheduler (startProcessing), the export   *)
(* (generateZip) and reset.                                                *)
(*                                                                         *)
(* One action is one macrotask of the browser's event loop: an event      *)
(* handler together with the React effects its state updates trigger, or  *)
(* the settlement of one fetch together with every promise continuation   *)
(* that runs before the next event is handled.                             *)
(***************************************************************************)
EXTENDS Integers, Sequences, FiniteSets, TLC

(***************************************************************************)
(* Bounds of the model.                                                    *)
(***************************************************************************)
\* The concurrency limit K.  The program sets it to 10 (src/App.tsx:30); the
\* model scales it down so that a queue longer than K fits in the bounds.
MAX_CONCURRENT_DOWNLOADS == 2
\* The largest number of valid rows of a workbook uploaded to the application.
MaxRows == 2
\* The number of workbooks uploaded in one behaviour (the values Date.now()
\* takes at the uploads).
MaxUploads == 2

(***************************************************************************)
(* Values.                                                                 *)
(***************************************************************************)
\* registrationDate: null (types.ts).  Instants are integers >= 0.
NoDate == -1
\* The value '' of a date input: no bound.  A chosen day is a day number >= 1.
EmptyDate == 0
\* An optional field that is absent ('error?: string').
Undefined == "undefined"
\* An absent 'blob?: Blob' is the empty set, a present one a singleton.
NoBlob == {}

\* The length of a calendar day, in instants (a scaled millisecond clock).
DayLen == 2

Min(a, b) == IF a <= b THEN a ELSE b

Range(s) == {s[i] : i \in 1..Len(s)}

RECURSIVE SelectSeqIdx(_, _, _)
\* The subsequence of s at the indices satisfying Test, in order (Array.filter).
SelectSeqIdx(s, Test(_), i) ==
    IF i > Len(s) THEN <<>>
    ELSE IF Test(s[i]) THEN <<s[i]>> \o SelectSeqIdx(s, Test, i + 1)
    ELSE SelectSeqIdx(s, Test, i + 1)

Filter(s, Test(_)) == SelectSeqIdx(s, Test, 1)

\* Array.map
Map(s, F(_)) == [i \in 1..Len(s) |-> F(s[i])]

Count(s, Test(_)) == Cardinality({i \in 1..Len(s) : Test(s[i])})

(***************************************************************************)
(* normalizeName (utils).  A name is a sequence of tokens: words, and the  *)
(* token "," for a comma.  The result is <<last, first>>, each a sequence  *)
(* of words (their concatenation), or <<word sequence>> for a single word. *)
(***************************************************************************)
Comma == ","
Unknown == <<"Unknown">>

RECURSIVE UpToComma(_)
UpToComma(name) ==
    IF name = <<>> \/ Head(name) = Comma THEN <<>>
    ELSE <<Head(name)>> \o UpToComma(Tail(name))

RECURSIVE AfterComma(_)
AfterComma(name) ==
    IF name = <<>> THEN <<>>
    ELSE IF Head(name) = Comma THEN Tail(name)
    ELSE AfterComma(Tail(name))

OrUnknown(words) == IF words = <<>> THEN Unknown ELSE words

normalizeName(fullName) ==
    IF Comma \in Range(fullName)
    THEN <<OrUnknown(UpToComma(fullName)),
           OrUnknown(UpToComma(AfterComma(fullName)))>>
    ELSE IF Len(fullName) < 2
         THEN IF fullName = <<>> THEN <<Unknown, Unknown>> ELSE <<fullName>>
         ELSE <<OrUnknown(<<fullName[Len(fullName)]>>), OrUnknown(<<fullName[1]>>)>>

(***************************************************************************)
(* Workbooks.  A workbook is a sequence of sheets' rows in sheet order;    *)
(* a row has the sheet it is on, its index on that sheet and its cells.    *)
(***************************************************************************)
Sheets == <<"A", "B">>

\* The k-th row of the model's workbooks (k >= 1): the sheets alternate.
Row(k) ==
    LET m == k % 4 IN
    [ sheet    |-> IF k % 2 = 1 THEN "A" ELSE "B",
      index    |-> (k - 1) \div 2,
      fullName |-> IF m = 1 THEN <<"Jane", "Doe">>
                   ELSE IF m = 2 THEN <<"Madonna">>
                   ELSE IF m = 3 THEN <<"Doe", Comma, "Jane">>
                   ELSE <<"Jane", "van", "Doe">>,
      url      |-> k,
      date     |-> IF m = 1 THEN NoDate
                   ELSE IF m = 2 THEN DayLen
                   ELSE IF m = 3 THEN 2 * DayLen
                   ELSE 3 * DayLen - 1 ]

\* The workbook with n valid rows; n = 0 is a workbook without a valid row.
Workbook(n) == [k \in 1..n |-> Row(k)]

Workbooks == {Workbook(n) : n \in 0..MaxRows}

\* A workbook whose rows outnumber the concurrency limit.
QueueWorkbooks == {Workbook(MAX_CONCURRENT_DOWNLOADS + 1)}

\* A workbook for the date filter: a row without a date, and rows dated the
\* last instant of day 0, the first and the last instant of day 1, and the
\* first instant of day 2.
FilterWorkbooks ==
    { << [Row(1) EXCEPT !.date = NoDate],
         [Row(2) EXCEPT !.date = DayLen - 1],
         [Row(3) EXCEPT !.date = DayLen],
         [Row(4) EXCEPT !.date = 2 * DayLen - 1],
         [Row(5) EXCEPT !.date = 2 * DayLen] >> }

SheetNames(wb) == {wb[k].sheet : k \in 1..Len(wb)}

\* allTasks.push({...}) for one row, with the value of Date.now().
NewTask(row, t) ==
    [ id               |-> <<row.sheet, row.index, t>>,
      sheet            |-> row.sheet,
      fullName         |-> row.fullName,
      url              |-> row.url,
      filename         |-> normalizeName(row.fullName),
      registrationDate |-> row.date,
      isSelected       |-> TRUE,
      status           |-> "pending",
      error            |-> Undefined,
      blob             |-> NoBlob ]

(***************************************************************************)
(* The state.                                                              *)
(***************************************************************************)
VARIABLES
    tasks,            \* useState<ImageTask[]>: the task collection, a sequence
    availableSheets,  \* useState<string[]>
    selectedSheets,   \* useState<Set<string>>
    isProcessing,     \* useState(false)
    isGeneratingZip,  \* useState(false)
    excelFile,        \* useState<File | null>: TRUE when a file is set
    startDate,        \* useState<string>(''): EmptyDate or a day number
    endDate,          \* useState<string>(''): EmptyDate or a day number
    activeTab,        \* 'upload' | 'process' | 'results'
    timezone,         \* the browser's local offset from UTC, in instants
    net,              \* the outcome the network gives each URL (SpecNet)
    now,              \* Date.now() at the latest upload
    queue,            \* startProcessing: the snapshot of the run in progress
    remaining,        \* processQueue: the tasks not yet dequeued
    activeDownloads,  \* startProcessing: the ids of the tasks being fetched
    fetching,         \* the downloadNext chains suspended in 'await downloadImage'
    promise,          \* the promise of startProcessing: idle, pending, rejected
    issued,           \* history: the ids whose fetch the run has issued
    zip,              \* generateZip: the archive handed to zip.generateAsync, if any
    signal            \* what the latest step told the user (alert, done, download)

vars == << tasks, availableSheets, selectedSheets, isProcessing, isGeneratingZip,
           excelFile, startDate, endDate, activeTab, timezone, net, now,
           queue, remaining, activeDownloads, fetching, promise, issued, zip,
           signal >>

appVars == << tasks, availableSheets, selectedSheets, isProcessing,
              isGeneratingZip, excelFile, startDate, endDate, activeTab >>

runVars == << queue, remaining, activeDownloads, fetching, promise, issued >>

\* The largest day a date input is set to.
MaxDay == 1

DateInputs == {EmptyDate} \cup (1..MaxDay)

Tabs == {"upload", "process", "results"}

(***************************************************************************)
(* The filter effect (useEffect on startDate, endDate, selectedSheets).    *)
(***************************************************************************)
\* new Date('YYYY-MM-DD'): midnight UTC of the day.
NewDate(day) == day * DayLen

\* end.setHours(23, 59, 59, 999): the last instant of the LOCAL calendar day
\* that holds the instant t, in the zone with offset tz.
SetHoursEndOfDay(t, tz) == (((t + tz) \div DayLen) * DayLen + (DayLen - 1)) - tz

isMatch(task, sd, ed, sheets, tz) ==
    LET start    == sd # EmptyDate
        end      == ed # EmptyDate
        startAt  == NewDate(sd)
        endAt    == SetHoursEndOfDay(NewDate(ed), tz)
        sheetOk  == task.sheet \in sheets
    IN  IF ~sheetOk THEN FALSE
        ELSE IF task.registrationDate # NoDate
             THEN /\ ~(start /\ task.registrationDate < startAt)
                  /\ ~(end /\ task.registrationDate > endAt)
             ELSE ~(start \/ end)

\* A variant that narrows and widens by turns: a task that matches is selected
\* only if it was not selected before.
ApplyFilterAlternating(ts, sd, ed, sheets, tz) ==
    [i \in 1..Len(ts) |->
        [ts[i] EXCEPT !.isSelected = isMatch(ts[i], sd, ed, sheets, tz)
                                       /\ ~ts[i].isSelected]]

\* A variant that puts every matching task back to pending, for a new download.
ApplyFilterResetting(ts, sd, ed, sheets, tz) ==
    [i \in 1..Len(ts) |->
        IF isMatch(ts[i], sd, ed, sheets, tz)
        THEN [ts[i] EXCEPT !.isSelected = TRUE, !.status = "pending",
                           !.blob = NoBlob, !.error = Undefined]
        ELSE [ts[i] EXCEPT !.isSelected = FALSE]]

\* setTasks(prev => prev.map(task => ({...task, isSelected: isMatch})))
ApplyFilter(ts, sd, ed, sheets, tz) ==
    [i \in 1..Len(ts) |-> [ts[i] EXCEPT !.isSelected = isMatch(ts[i], sd, ed, sheets, tz)]]

\* The effect as it runs after a render whose task collection is ts.
FilterEffect(ts, sd, ed, sheets, tz) ==
    IF Len(ts) = 0 THEN ts ELSE ApplyFilter(ts, sd, ed, sheets, tz)

(***************************************************************************)
(* stats (useMemo).                                                        *)
(***************************************************************************)
IsCompleted(t) == t.status = "completed"
IsFailed(t) == t.status = "failed"
IsSkipped(t) == t.status = "skipped"
IsPendingSelected(t) == t.status = "pending" /\ t.isSelected
IsSelected(t) == t.isSelected

\* A variant whose pending count takes every pending task, selected or not.
statsPendingAny(ts) ==
    [ total     |-> Len(ts),
      completed |-> Count(ts, IsCompleted),
      failed    |-> Count(ts, IsFailed),
      skipped   |-> Count(ts, IsSkipped),
      pending   |-> Count(ts, LAMBDA t : t.status = "pending"),
      selected  |-> Count(ts, IsSelected) ]

stats(ts) ==
    [ total     |-> Len(ts),
      completed |-> Count(ts, IsCompleted),
      failed    |-> Count(ts, IsFailed),
      skipped   |-> Count(ts, IsSkipped),
      pending   |-> Count(ts, IsPendingSelected),
      selected  |-> Count(ts, IsSelected) ]

Ids(ts) == {ts[i].id : i \in 1..Len(ts)}

(***************************************************************************)
(* Init: the state after the component mounts.                             *)
(***************************************************************************)
InitApp ==
    /\ tasks = <<>>
    /\ availableSheets = {}
    /\ selectedSheets = {}
    /\ isProcessing = FALSE
    /\ isGeneratingZip = FALSE
    /\ excelFile = FALSE
    /\ startDate = EmptyDate
    /\ endDate = EmptyDate
    /\ activeTab = "upload"
    /\ now = 0
    /\ queue = <<>>
    /\ remaining = <<>>
    /\ activeDownloads = {}
    /\ fetching = {}
    /\ promise = "idle"
    /\ issued = {}
    /\ zip = {}
    /\ signal = "none"

(***************************************************************************)
(* handleFileUpload with its reader.onload callback.                       *)
(***************************************************************************)
handleFileUpload(wb) ==
    /\ activeTab = "upload"
    /\ now < MaxUploads
    /\ excelFile' = TRUE
    /\ now' = now + 1
    /\ LET allTasks == [k \in 1..Len(wb) |-> NewTask(wb[k], now')]
       IN  IF Len(allTasks) = 0
           THEN /\ signal' = "alert: no valid rows"
                /\ UNCHANGED << tasks, availableSheets, selectedSheets, activeTab >>
           ELSE /\ availableSheets' = SheetNames(wb)
                /\ selectedSheets' = SheetNames(wb)
                /\ tasks' = FilterEffect(allTasks, startDate, endDate,
                                         selectedSheets', timezone)
                /\ activeTab' = "process"
                /\ signal' = "none"
    /\ UNCHANGED << isProcessing, isGeneratingZip, startDate, endDate, timezone, net >>
    /\ UNCHANGED << runVars, zip >>

(***************************************************************************)
(* The navigation stepper.                                                 *)
(***************************************************************************)
TabDisabled(tab) ==
    \/ tab = "process" /\ Len(tasks) = 0
    \/ tab = "results" /\ stats(tasks).completed = 0 /\ stats(tasks).failed = 0

setActiveTab(tab) ==
    /\ tab # activeTab
    /\ ~TabDisabled(tab)
    /\ activeTab' = tab
    /\ signal' = "none"
    /\ UNCHANGED << tasks, availableSheets, selectedSheets, isProcessing,
                    isGeneratingZip, excelFile, startDate, endDate, timezone, net,
                    now >>
    /\ UNCHANGED << runVars, zip >>

(***************************************************************************)
(* The filter controls of the process view.  Each handler changes a        *)
(* dependency of the filter effect, which then runs on the collection.     *)
(***************************************************************************)
\* The state after the handler set the filter inputs to sd, ed, sheets.
Refilter(sd, ed, sheets) ==
    /\ activeTab = "process"
    /\ startDate' = sd
    /\ endDate' = ed
    /\ selectedSheets' = sheets
    /\ tasks' = FilterEffect(tasks, sd, ed, sheets, timezone)
    /\ signal' = "none"
    /\ UNCHANGED << availableSheets, isProcessing, isGeneratingZip, excelFile,
                    activeTab, timezone, net, now >>
    /\ UNCHANGED << runVars, zip >>

\* onChange of the start date input: the value differs from the one shown.
setStartDate(value) ==
    /\ value # startDate
    /\ Refilter(value, endDate, selectedSheets)

setEndDate(value) ==
    /\ value # endDate
    /\ Refilter(startDate, value, selectedSheets)

toggleSheet(sheet) ==
    /\ sheet \in availableSheets
    /\ Refilter(startDate, endDate,
                IF sheet \in selectedSheets THEN selectedSheets \ {sheet}
                ELSE selectedSheets \cup {sheet})

toggleAllSheets(select) ==
    Refilter(startDate, endDate, IF select THEN availableSheets ELSE {})

clearFilters ==
    Refilter(EmptyDate, EmptyDate, availableSheets)

(***************************************************************************)
(* Manual selection.                                                       *)
(***************************************************************************)
\* A variant that queues a task again when it is selected again: its outcome
\* is cleared.
ToggleByIdRequeue(ts, id) ==
    [i \in 1..Len(ts) |->
        IF ts[i].id # id THEN ts[i]
        ELSE IF ts[i].isSelected THEN [ts[i] EXCEPT !.isSelected = FALSE]
        ELSE [ts[i] EXCEPT !.isSelected = TRUE, !.status = "pending",
                           !.blob = NoBlob, !.error = Undefined]]

\* prev.map(t => t.id === id ? { ...t, isSelected: !t.isSelected } : t)
ToggleById(ts, id) ==
    [i \in 1..Len(ts) |->
        IF ts[i].id = id THEN [ts[i] EXCEPT !.isSelected = ~ts[i].isSelected]
        ELSE ts[i]]

\* A variant of the bulk selection that selects only the tasks the filter
\* accepts.
SelectAllMatching(ts, select) ==
    [i \in 1..Len(ts) |->
        [ts[i] EXCEPT !.isSelected =
            select /\ isMatch(ts[i], startDate, endDate, selectedSheets, timezone)]]

\* prev.map(t => ({ ...t, isSelected: select }))
SelectAll(ts, select) ==
    [i \in 1..Len(ts) |-> [ts[i] EXCEPT !.isSelected = select]]

SetTasksOnly(ts) ==
    /\ tasks' = ts
    /\ signal' = "none"
    /\ UNCHANGED << availableSheets, selectedSheets, isProcessing, isGeneratingZip,
                    excelFile, startDate, endDate, activeTab, timezone, net, now >>
    /\ UNCHANGED << runVars, zip >>

toggleTaskSelection(id) ==
    /\ activeTab = "process"
    /\ id \in Ids(tasks)
    /\ SetTasksOnly(ToggleById(tasks, id))

toggleAllTasks(select) ==
    /\ activeTab = "process"
    /\ SetTasksOnly(SelectAll(tasks, select))

(***************************************************************************)
(* downloadImage.  What the network does with one fetch is an outcome: a   *)
(* response (status, and the type and size of its body) or a rejection     *)
(* with a value that carries a message or none.                            *)
(***************************************************************************)
Response(ok, status, type, size) ==
    [kind |-> "response", ok |-> ok, status |-> status, type |-> type,
     size |-> size, message |-> Undefined]

Rejection(message) ==
    [kind |-> "reject", ok |-> FALSE, status |-> 0, type |-> "", size |-> 0,
     message |-> message]

OkImage == Response(TRUE, 200, "image/jpeg", 100)
NotFound == Response(FALSE, 404, "text/html", 99)

FetchOutcomes ==
    { OkImage,
      Response(TRUE, 200, "text/html", 99),
      NotFound,
      Rejection("Failed to fetch"),
      Rejection(""),
      Rejection(Undefined) }

\* The failures of a fetch: invalid content, a non-success status, a network
\* error.
FailedFetches ==
    { Response(TRUE, 200, "text/html", 99), NotFound, Rejection("Failed to fetch") }

\* `HTTP ${response.status}`
HttpMessage(status) ==
    CASE status = 404 -> "HTTP 404"
      [] status = 500 -> "HTTP 500"
      [] OTHER -> "HTTP"

\* blob.type.startsWith('image/')
StartsWithImage(type) == type \in {"image/jpeg", "image/png"}

\* error.message.includes('Failed to fetch')
IncludesFailedToFetch(message) ==
    message \in {"Failed to fetch", "TypeError: Failed to fetch"}

\* The responses of a server: a success or an error status, with a body of
\* an image type, another type or no type, empty, just under or at 100 bytes.
Responses ==
    { Response(st \in {200, 204}, st, type, size) :
          st \in {200, 204, 404, 500},
          type \in {"image/jpeg", "image/png", "text/html", ""},
          size \in {0, 99, 100} }

\* A variant of the try block that asks for an image type and for 100 bytes.
TryFetchStrict(o) ==
    IF o.kind = "reject" THEN o
    ELSE IF ~o.ok THEN Rejection(HttpMessage(o.status))
    ELSE IF ~StartsWithImage(o.type) \/ o.size < 100 THEN Rejection("Invalid image")
    ELSE o

\* The value the try block throws, as a rejection, or the response's blob.
TryFetch(o) ==
    IF o.kind = "reject" THEN o
    ELSE IF ~o.ok THEN Rejection(HttpMessage(o.status))
    ELSE IF ~StartsWithImage(o.type) /\ o.size < 100 THEN Rejection("Invalid image")
    ELSE o

\* A variant without the catch block: what the try block throws rejects.
downloadImageNoCatch(task, o) ==
    LET r == TryFetch(o) IN
    IF r.kind = "response"
    THEN [rejected |-> FALSE,
          value |-> [task EXCEPT !.status = "completed",
                                 !.blob = {[url |-> task.url, type |-> r.type,
                                            size |-> r.size]}]]
    ELSE [rejected |-> TRUE, value |-> task]

\* The catch block: the failed record, unless reading error.message of a value
\* without a message throws, and downloadImage itself rejects.
downloadImage(task, o) ==
    LET r == TryFetch(o) IN
    IF r.kind = "response"
    THEN [rejected |-> FALSE,
          value |-> [task EXCEPT !.status = "completed",
                                 !.blob = {[url |-> task.url, type |-> r.type,
                                            size |-> r.size]}]]
    ELSE IF r.message = Undefined
    THEN [rejected |-> TRUE, value |-> task]
    ELSE [rejected |-> FALSE,
          value |-> [task EXCEPT !.status = "failed",
                                 !.error = IF IncludesFailedToFetch(r.message)
                                           THEN "CORS/Network Error"
                                           ELSE r.message]]

(***************************************************************************)
(* startProcessing.                                                        *)
(***************************************************************************)
\* A variant that queues every selected task, whatever its state.
SnapshotAnyState(ts) == Filter(ts, IsSelected)

\* tasks.filter(t => t.status === 'pending' && t.isSelected)
Snapshot(ts) == Filter(ts, IsPendingSelected)

\* A variant that starts one downloadNext per queued task.
InitialBatchSizeUncapped(n) == n

\* Math.min(MAX_CONCURRENT_DOWNLOADS, remaining.length)
InitialBatchSize(n) == Min(MAX_CONCURRENT_DOWNLOADS, n)

\* A variant whose setTasks maps the collection of the render that started
\* the run instead of prev: the snapshot tasks are back as they were queued.
ReplaceByIdStale(ts, id, result) ==
    [i \in 1..Len(ts) |->
        IF ts[i].id = id THEN result
        ELSE IF \E j \in 1..Len(queue) : queue[j].id = ts[i].id
             THEN queue[CHOOSE j \in 1..Len(queue) : queue[j].id = ts[i].id]
             ELSE ts[i]]

\* A variant whose setTasks leaves the collection as it was.
ReplaceByIdDropped(ts, id, result) == ts

\* A variant whose setTasks writes the outcome on every task of the sheet.
ReplaceByIdOnSheet(ts, id, result) ==
    [i \in 1..Len(ts) |->
        IF ts[i].sheet = result.sheet
        THEN [ts[i] EXCEPT !.status = result.status, !.blob = result.blob,
                           !.error = result.error]
        ELSE ts[i]]

\* prev.map(t => t.id === task.id ? result : t)
ReplaceById(ts, id, result) ==
    [i \in 1..Len(ts) |-> IF ts[i].id = id THEN result ELSE ts[i]]

\* A variant that does not await the chains or the drain loop.
RunCompleteNoAwait(chains, active) == TRUE

\* 'await Promise.all(initialBatch)' has returned, every chain having ended
\* without a fault, and the drain loop 'while (activeDownloads.size > 0)' is over.
RunComplete(chains, active) == chains = {} /\ active = {}

\* A variant in which the Start Batch button stays on the page during a run.
StartBatchAlwaysRendered == TRUE

\* '{!isProcessing ? (<button onClick={startProcessing} ...' : the Start Batch
\* button is on the page only while no run is active.
StartBatchRendered == ~isProcessing

\* The click on Start Batch: the snapshot, and the first downloadNext calls up
\* to their 'await downloadImage(task)'.  An empty snapshot completes the run
\* in the same step.
startProcessing ==
    /\ activeTab = "process"
    /\ StartBatchRendered
    /\ stats(tasks).selected # 0
    /\ queue' = Snapshot(tasks)
    /\ LET n == InitialBatchSize(Len(queue'))
       IN  /\ fetching' = {[task |-> queue'[i], thrown |-> FALSE] : i \in 1..n}
           /\ remaining' = SubSeq(queue', n + 1, Len(queue'))
           /\ activeDownloads' = {queue'[i].id : i \in 1..n}
           /\ issued' = {queue'[i].id : i \in 1..n}
           /\ IF RunComplete(fetching', activeDownloads')
              THEN /\ isProcessing' = FALSE
                   /\ activeTab' = "results"
                   /\ promise' = "idle"
                   /\ signal' = "done"
              ELSE /\ isProcessing' = TRUE
                   /\ activeTab' = activeTab
                   /\ promise' = "pending"
                   /\ signal' = "none"
    /\ UNCHANGED << tasks, availableSheets, selectedSheets, isGeneratingZip,
                    excelFile, startDate, endDate, timezone, net, now, zip >>

\* A variant of the dequeue that reads the head of the queue and leaves it
\* there.
ShiftWithoutRemoval(rem) ==
    IF rem = <<>> THEN [task |-> <<>>, rest |-> <<>>]
    ELSE [task |-> <<Head(rem)>>, rest |-> rem]

\* A variant of the dequeue that passes over the tasks deselected since the
\* snapshot.
ShiftSelected(rem) ==
    LET sel == Filter(rem, LAMBDA t : \E i \in 1..Len(tasks) :
                               tasks[i].id = t.id /\ tasks[i].isSelected)
    IN  IF sel = <<>> THEN [task |-> <<>>, rest |-> <<>>]
        ELSE [task |-> <<Head(sel)>>, rest |-> Tail(sel)]

\* 'if (remaining.length === 0) return; const task = remaining.shift()': the
\* task dequeued, if any, and what is left of the queue.
Shift(rem) ==
    IF rem = <<>> THEN [task |-> <<>>, rest |-> <<>>]
    ELSE [task |-> <<Head(rem)>>, rest |-> Tail(rem)]

\* One fetch settles with outcome o: the rest of downloadImage, the setTasks
\* of downloadNext, its finally block and the downloadNext call in it, and,
\* when the chain ends, what follows 'await Promise.all(initialBatch)'.
FetchSettles(c, o) ==
    /\ c \in fetching
    /\ LET r      == downloadImage(c.task, o)
           thrown == c.thrown \/ r.rejected
           next   == Shift(remaining)
       IN  /\ tasks' = IF r.rejected THEN tasks
                       ELSE ReplaceById(tasks, c.task.id, r.value)
           /\ remaining' = next.rest
           /\ IF next.task # <<>>
              THEN /\ fetching' = (fetching \ {c}) \cup
                                  {[task |-> next.task[1], thrown |-> thrown]}
                   /\ activeDownloads' = (activeDownloads \ {c.task.id}) \cup
                                         {next.task[1].id}
                   /\ issued' = issued \cup {next.task[1].id}
                   /\ signal' = "none"
                   /\ UNCHANGED << isProcessing, activeTab, promise, queue >>
              ELSE /\ fetching' = fetching \ {c}
                   /\ activeDownloads' = activeDownloads \ {c.task.id}
                   /\ queue' = IF fetching' = {} THEN <<>> ELSE queue
                   /\ issued' = IF fetching' = {} THEN {} ELSE issued
                   /\ IF promise # "pending"
                      THEN /\ signal' = "none"
                           /\ UNCHANGED << isProcessing, activeTab, promise >>
                      ELSE IF thrown
                      THEN /\ promise' = "rejected"
                           /\ signal' = "unhandled rejection"
                           /\ UNCHANGED << isProcessing, activeTab >>
                      ELSE IF RunComplete(fetching', activeDownloads')
                      THEN /\ promise' = "idle"
                           /\ isProcessing' = FALSE
                           /\ activeTab' = "results"
                           /\ signal' = "done"
                      ELSE /\ signal' = "none"
                           /\ UNCHANGED << isProcessing, activeTab, promise >>
    /\ UNCHANGED << availableSheets, selectedSheets, isGeneratingZip, excelFile,
                    startDate, endDate, timezone, net, now, zip >>

(***************************************************************************)
(* generateZip.                                                            *)
(***************************************************************************)
IsCompletedWithBlob(t) == t.status = "completed" /\ t.blob # NoBlob
\* A variant that reports every failed task, selected or not.
IsFailedAny(t) == t.status = "failed"

IsFailedSelected(t) == t.status = "failed" /\ t.isSelected

\* A variant in which an entry already in the archive is kept.
RECURSIVE AddFilesKeepFirst(_, _)
AddFilesKeepFirst(files, ts) ==
    IF ts = <<>> THEN files
    ELSE LET t    == Head(ts)
             path == <<t.sheet, t.filename>>
         IN  IF \E f \in files : f.path = path
             THEN AddFilesKeepFirst(files, Tail(ts))
             ELSE AddFilesKeepFirst(files \cup {[path |-> path, blob |-> t.blob]},
                                    Tail(ts))

\* zip.folder(task.sheet).file(task.filename, task.blob): a later entry of the
\* same path replaces the earlier one.
RECURSIVE AddFiles(_, _)
AddFiles(files, ts) ==
    IF ts = <<>> THEN files
    ELSE LET t    == Head(ts)
             path == <<t.sheet, t.filename>>
         IN  AddFiles({f \in files : f.path # path} \cup
                      {[path |-> path, blob |-> t.blob]}, Tail(ts))

\* t.registrationDate.toISOString().split('T')[0], or ''
DateStr(t) ==
    IF t.registrationDate # NoDate THEN t.registrationDate \div DayLen
    ELSE EmptyDate

\* A variant of the report line that leaves the error cell out.
CsvRowWithoutError(t) ==
    <<t.sheet, t.fullName, t.filename, t.url, Undefined, DateStr(t)>>

\* One line of csvContent.
CsvRow(t) == <<t.sheet, t.fullName, t.filename, t.url, t.error, DateStr(t)>>

BuildZip(ts) ==
    LET failedTasks == Filter(ts, IsFailedSelected)
    IN  [ files     |-> AddFiles({}, Filter(ts, IsCompletedWithBlob)),
          hasReport |-> Len(failedTasks) > 0,
          report    |-> [i \in 1..Len(failedTasks) |-> CsvRow(failedTasks[i])] ]

\* A variant that goes on to build the archive whatever the collection holds.
NothingToExportNever(ts) == FALSE

\* completedTasks.length === 0
NothingToExport(ts) == Len(Filter(ts, IsCompletedWithBlob)) = 0

\* The click on Download ZIP, up to 'await zip.generateAsync'.
generateZip ==
    /\ activeTab = "results"
    /\ ~isGeneratingZip
    /\ IF NothingToExport(tasks)
       THEN /\ signal' = "alert: No images available to zip."
            /\ UNCHANGED << isGeneratingZip, zip >>
       ELSE /\ isGeneratingZip' = TRUE
            /\ zip' = {BuildZip(tasks)}
            /\ signal' = "none"
    /\ UNCHANGED << tasks, availableSheets, selectedSheets, isProcessing, excelFile,
                    startDate, endDate, activeTab, timezone, net, now >>
    /\ UNCHANGED runVars

\* zip.generateAsync settles: the download of the archive, or the catch block;
\* then finally.
generateAsyncSettles(ok) ==
    /\ isGeneratingZip
    /\ isGeneratingZip' = FALSE
    /\ zip' = {}
    /\ signal' = IF ok THEN "download" ELSE "alert: Error generating ZIP."
    /\ UNCHANGED << tasks, availableSheets, selectedSheets, isProcessing, excelFile,
                    startDate, endDate, activeTab, timezone, net, now >>
    /\ UNCHANGED runVars

(***************************************************************************)
(* reset: the header button (rendered with a file, disabled during a run)  *)
(* and 'Start a New Batch' of the results view.                            *)
(***************************************************************************)
reset ==
    /\ \/ excelFile /\ ~isProcessing
       \/ activeTab = "results"
    /\ signal' = "none"
    /\ IF isProcessing
       THEN UNCHANGED << tasks, excelFile, startDate, endDate, activeTab >>
       ELSE /\ tasks' = <<>>
            /\ excelFile' = FALSE
            /\ startDate' = EmptyDate
            /\ endDate' = EmptyDate
            /\ activeTab' = "upload"
    /\ UNCHANGED << availableSheets, selectedSheets, isProcessing, isGeneratingZip,
                    timezone, net, now >>
    /\ UNCHANGED << runVars, zip >>

(***************************************************************************)
(* The specification of the application: every handler, and a network that *)
(* may answer the same URL differently every time (net is not read).       *)
(***************************************************************************)
Urls == 1..(MAX_CONCURRENT_DOWNLOADS + 1)

Init == InitApp /\ timezone = 0 /\ net = [u \in Urls |-> OkImage]

Next ==
    \/ \E wb \in Workbooks : handleFileUpload(wb)
    \/ \E tab \in Tabs : setActiveTab(tab)
    \/ \E value \in DateInputs : setStartDate(value)
    \/ \E value \in DateInputs : setEndDate(value)
    \/ \E sheet \in Range(Sheets) : toggleSheet(sheet)
    \/ \E select \in BOOLEAN : toggleAllSheets(select)
    \/ clearFilters
    \/ \E id \in Ids(tasks) : toggleTaskSelection(id)
    \/ \E select \in BOOLEAN : toggleAllTasks(select)
    \/ startProcessing
    \/ \E c \in fetching, o \in FetchOutcomes : FetchSettles(c, o)
    \/ generateZip
    \/ \E ok \in BOOLEAN : generateAsyncSettles(ok)
    \/ reset

Spec == Init /\ [][Next]_vars

(***************************************************************************)
(* The scheduler with a queue longer than the concurrency limit: the       *)
(* upload of such a workbook, the selection handlers, the runs and reset.  *)
(***************************************************************************)
NextRun ==
    \/ \E wb \in QueueWorkbooks : handleFileUpload(wb)
    \/ \E tab \in Tabs : setActiveTab(tab)
    \/ \E sheet \in Range(Sheets) : toggleSheet(sheet)
    \/ \E id \in Ids(tasks) : toggleTaskSelection(id)
    \/ \E select \in BOOLEAN : toggleAllTasks(select)
    \/ startProcessing
    \/ \E c \in fetching, o \in FetchOutcomes : FetchSettles(c, o)
    \/ reset

SpecRun == Init /\ [][NextRun]_vars

(***************************************************************************)
(* The same, with a network that gives each URL one outcome, the same at   *)
(* every fetch.                                                            *)
(***************************************************************************)
NetOutcomes == {OkImage, NotFound, Rejection("Failed to fetch")}

InitNet == InitApp /\ timezone = 0 /\ net \in [Urls -> NetOutcomes]

NextNet ==
    \/ \E wb \in QueueWorkbooks : handleFileUpload(wb)
    \/ \E tab \in Tabs : setActiveTab(tab)
    \/ \E id \in Ids(tasks) : toggleTaskSelection(id)
    \/ \E select \in BOOLEAN : toggleAllTasks(select)
    \/ startProcessing
    \/ \E c \in fetching : FetchSettles(c, net[c.task.url])
    \/ reset

SpecNet == InitNet /\ [][NextNet]_vars

(***************************************************************************)
(* The filter in a browser of any time zone: the upload of a dated         *)
(* workbook, the filter controls, the manual selection and reset.          *)
(***************************************************************************)
\* The offsets of local time from UTC, in instants: west, UTC, east.
Timezones == {-1, 0, 1}

InitFilter ==
    InitApp /\ timezone \in Timezones /\ net = [u \in Urls |-> OkImage]

NextFilter ==
    \/ \E wb \in FilterWorkbooks : handleFileUpload(wb)
    \/ \E tab \in Tabs : setActiveTab(tab)
    \/ \E value \in DateInputs : setStartDate(value)
    \/ \E value \in DateInputs : setEndDate(value)
    \/ \E sheet \in Range(Sheets) : toggleSheet(sheet)
    \/ \E select \in BOOLEAN : toggleAllSheets(select)
    \/ clearFilters
    \/ \E id \in Ids(tasks) : toggleTaskSelection(id)
    \/ \E select \in BOOLEAN : toggleAllTasks(select)
    \/ reset

SpecFilter == InitFilter /\ [][NextFilter]_vars

(***************************************************************************)
(* The export after runs over a workbook in which two rows of one sheet    *)
(* normalise to the same file name: the selection, the runs, the export.   *)
(***************************************************************************)
NextZip ==
    \/ \E wb \in QueueWorkbooks : handleFileUpload(wb)
    \/ \E tab \in Tabs : setActiveTab(tab)
    \/ \E id \in Ids(tasks) : toggleTaskSelection(id)
    \/ \E select \in BOOLEAN : toggleAllTasks(select)
    \/ startProcessing
    \/ \E c \in fetching, o \in NetOutcomes : FetchSettles(c, o)
    \/ generateZip
    \/ \E ok \in BOOLEAN : generateAsyncSettles(ok)
    \/ reset

SpecZip == Init /\ [][NextZip]_vars

(***************************************************************************)
(* The runs against a server that answers with any of the responses, or    *)
(* with a network error.                                                   *)
(***************************************************************************)
NextFetch ==
    \/ \E wb \in Workbooks : handleFileUpload(wb)
    \/ \E tab \in Tabs : setActiveTab(tab)
    \/ startProcessing
    \/ \E c \in fetching, o \in Responses \cup {Rejection("Failed to fetch")} :
           FetchSettles(c, o)
    \/ reset

SpecFetch == Init /\ [][NextFetch]_vars

(***************************************************************************)
(* The claims.                                                             *)
(***************************************************************************)
\* C1: in every reachable state of a run the number of fetches in flight
\* (tasks dequeued whose downloadImage has not resolved) is at most the
\* concurrency limit, for any queue length and any order of resolution.
C1_InFlightAtMostK ==
    /\ Cardinality(fetching) <= MAX_CONCURRENT_DOWNLOADS
    /\ Cardinality(activeDownloads) <= MAX_CONCURRENT_DOWNLOADS

\* The limit binds: K fetches in flight while a task still waits in the queue.
C1_Witness ==
    /\ Cardinality(fetching) = MAX_CONCURRENT_DOWNLOADS
    /\ Cardinality(activeDownloads) = MAX_CONCURRENT_DOWNLOADS
    /\ remaining # <<>>

\* The fields a fetch records on a task: state, payload and error detail.
Recorded(t) == <<t.status, t.blob, t.error>>

\* The task of the collection ts with identifier id.
TaskOf(ts, id) == ts[CHOOSE i \in 1..Len(ts) : ts[i].id = id]

\* C2: a run signals done (isProcessing back to false) only when the queue is
\* empty, every task of the snapshot has had its fetch issued, no fetch is in
\* flight and every snapshot task still in the collection holds its outcome;
\* and while no run is active no step changes what is recorded on a task.
C2_DoneOnlyAfterAllRecorded ==
    [][ /\ signal' = "done" =>
            /\ ~isProcessing'
            /\ remaining' = <<>>
            /\ fetching' = {}
            /\ activeDownloads' = {}
            /\ remaining = <<>>
            /\ issued = Ids(queue)
            /\ \A id \in Ids(queue) \cap Ids(tasks') :
                   TaskOf(tasks', id).status \in {"completed", "failed"}
        /\ ~isProcessing' => fetching' = {} /\ remaining' = <<>>
        /\ ~isProcessing =>
               \A id \in Ids(tasks) \cap Ids(tasks') :
                   Recorded(TaskOf(tasks', id)) = Recorded(TaskOf(tasks, id))
      ]_vars

\* A run over a queue longer than the limit has signalled done with an outcome
\* on every task.
C2_Witness ==
    /\ signal = "done"
    /\ Len(tasks) = MAX_CONCURRENT_DOWNLOADS + 1
    /\ \A i \in 1..Len(tasks) : tasks[i].status \in {"completed", "failed"}

IsSettled(t) == t.status \in {"completed", "failed"}

\* The number of completed or failed tasks of ts whose id is in (or, with
\* inside FALSE, not in) the set ids.
CountIds(ts, ids, inside) ==
    Cardinality({i \in 1..Len(ts) : IsSettled(ts[i]) /\ ((ts[i].id \in ids) = inside)})

\* C3 as stated: whenever a run signals done, completedCount + failedCount of
\* the collection equals the number of tasks that were pending and selected
\* when that run started.  Stated for the runs whose snapshot tasks are all
\* still in the collection at the done signal, where it already fails.
C3_CountsEqualSnapshotSize ==
    [][ (signal' = "done" /\ Ids(queue) \subseteq Ids(tasks')) =>
            stats(tasks').completed + stats(tasks').failed = Len(queue) ]_vars

\* C3, amended: whenever a run signals done, every task of the run's snapshot
\* that is still in the collection is completed or failed, so completedCount +
\* failedCount equals the number of snapshot tasks in the collection plus the
\* number of completed or failed tasks outside the snapshot.
C3_CountsEqualSnapshotPlusEarlier ==
    [][ signal' = "done" =>
            /\ \A id \in Ids(queue) \cap Ids(tasks') : IsSettled(TaskOf(tasks', id))
            /\ stats(tasks').completed + stats(tasks').failed =
                   Cardinality(Ids(queue) \cap Ids(tasks'))
                   + CountIds(tasks', Ids(queue), FALSE) ]_vars

\* A later run of the batch has signalled done: its snapshot was one task, and
\* the collection also counts two outcomes of an earlier run.
C3_Witness ==
    /\ signal = "done"
    /\ stats(tasks).completed = 2
    /\ stats(tasks).failed = 1

\* C4: the snapshot a run takes holds exactly the tasks then pending and
\* selected, and no step changes the state, payload or error detail of a task
\* outside the snapshot of the run in flight, whatever the selection does.
C4_OutsideSnapshotUntouched ==
    [][ /\ (queue = <<>> /\ queue' # <<>>) =>
               Ids(queue') = {tasks[i].id : i \in {j \in 1..Len(tasks) :
                                  tasks[j].status = "pending" /\ tasks[j].isSelected}}
        /\ \A id \in (Ids(tasks) \cap Ids(tasks')) \ Ids(queue) :
               Recorded(TaskOf(tasks', id)) = Recorded(TaskOf(tasks, id))
      ]_vars

\* A run is in flight, one of its tasks has its outcome, and a task left out of
\* the snapshot has since been selected and is still pending.
C4_Witness ==
    /\ isProcessing
    /\ fetching # {}
    /\ \E i \in 1..Len(tasks) : tasks[i].id \in Ids(queue) /\ IsSettled(tasks[i])
    /\ \E i \in 1..Len(tasks) :
           /\ tasks[i].id \notin Ids(queue)
           /\ tasks[i].isSelected
           /\ tasks[i].status = "pending"

\* C5: when a fetch fails (network error, non-success status, invalid content)
\* the run is not aborted: the task, if in the collection, is recorded failed
\* with an error detail; the chain that handled it dequeues the next task of
\* the queue; the other fetches stay in flight, no queued task is dropped or
\* left without a chain to fetch it, and the step raises no fault.
C5_FailedFetchDoesNotAbort ==
    [][ \A c \in fetching, o \in FailedFetches :
          FetchSettles(c, o) =>
            /\ c.task.id \in Ids(tasks) =>
                   /\ TaskOf(tasks', c.task.id).status = "failed"
                   /\ TaskOf(tasks', c.task.id).error # Undefined
            /\ remaining # <<>> =>
                   /\ remaining' = Tail(remaining)
                   /\ \E d \in fetching' : d.task = Head(remaining)
            /\ (fetching \ {c}) \subseteq fetching'
            /\ Ids(remaining) \subseteq
                   (Ids(remaining') \cup {d.task.id : d \in fetching'})
            /\ remaining' # <<>> => fetching' # {}
            /\ ~c.thrown => /\ promise' = "rejected" => promise = "rejected"
                            /\ signal' # "unhandled rejection"
            /\ isProcessing' = isProcessing \/ signal' = "done"
      ]_vars

\* A fetch of the first batch has failed and been recorded, and its chain is
\* fetching the task that waited in the queue.
C5_Witness ==
    /\ promise = "pending"
    /\ Len(queue) = MAX_CONCURRENT_DOWNLOADS + 1
    /\ \E i \in 1..Len(tasks) :
           /\ tasks[i].status = "failed"
           /\ tasks[i].id \in {queue[j].id : j \in 1..MAX_CONCURRENT_DOWNLOADS}
    /\ \E c \in fetching : c.task.id = queue[Len(queue)].id /\ ~c.thrown
    /\ Cardinality(fetching) = MAX_CONCURRENT_DOWNLOADS

\* C6: for every way a fetch can fail, a rejection whose value carries no
\* message included, downloadImage resolves and never rejects, so the promise
\* of startProcessing is never rejected and the run reaches the step that sets
\* isProcessing to false.
C6_NeverRejects ==
    /\ promise # "rejected"
    /\ signal # "unhandled rejection"

\* C7: the set of tasks a run fetches is fixed when it starts.  The tasks it
\* issues or holds in its queue are those pending and selected at the start;
\* while it is in flight no step (selection, re-filter, settlement) changes the
\* snapshot, every fetch issued is of a snapshot task, issued once, and the
\* run ends only with every snapshot task issued.
C7_FetchedSetFixedAtStart ==
    [][ /\ (queue = <<>> /\ queue' # <<>>) =>
               /\ issued' \cup Ids(remaining') =
                      {tasks[i].id : i \in {j \in 1..Len(tasks) :
                           tasks[j].status = "pending" /\ tasks[j].isSelected}}
               /\ issued' \cup Ids(remaining') = Ids(queue')
        /\ (queue # <<>> /\ queue' # <<>>) =>
               /\ queue' = queue
               /\ issued \subseteq issued'
               /\ issued' \cup Ids(remaining') = Ids(queue)
               /\ issued' \cap Ids(remaining') = {}
               /\ \A c \in fetching' : \E i \in 1..Len(queue) : c.task = queue[i]
        /\ (queue # <<>> /\ queue' = <<>>) =>
               /\ issued = Ids(queue)
               /\ remaining = <<>>
      ]_vars

\* A chain is fetching the task that waited in the queue, although the task
\* has been deselected since the run started.
C7_Witness ==
    /\ isProcessing
    /\ Len(queue) = MAX_CONCURRENT_DOWNLOADS + 1
    /\ \E c \in fetching :
           /\ c.task.id = queue[Len(queue)].id
           /\ c.task.id \in Ids(tasks)
           /\ ~TaskOf(tasks, c.task.id).isSelected

\* C8: with one fixed outcome per URL, the collection at the done signal is a
\* function of the snapshot and the outcomes alone: the collection keeps its
\* order, every snapshot task holds the record downloadImage gives for its
\* snapshot entry and its URL's outcome, in every order of resolution and
\* every assignment of tasks to chains, and the other tasks hold what they held.
C8_FinalStateOrderIndependent ==
    [][ signal' = "done" =>
          /\ \A j \in 1..Len(queue) : \A i \in 1..Len(tasks') :
                 tasks'[i].id = queue[j].id =>
                     [tasks'[i] EXCEPT !.isSelected = queue[j].isSelected] =
                         downloadImage(queue[j], net[queue[j].url]).value
          /\ Len(tasks') = Len(tasks)
          /\ \A i \in 1..Len(tasks) :
                 /\ tasks'[i].id = tasks[i].id
                 /\ tasks[i].id \notin Ids(queue) =>
                        Recorded(tasks'[i]) = Recorded(tasks[i])
      ]_vars

\* A run over a queue longer than the limit has signalled done on a network
\* that fails two of the URLs, each in its own way, and serves the third.
C8_Witness ==
    /\ signal = "done"
    /\ Len(tasks) = MAX_CONCURRENT_DOWNLOADS + 1
    /\ \E i, j, k \in 1..Len(tasks) :
           /\ tasks[i].status = "completed"
           /\ tasks[j].error = "CORS/Network Error"
           /\ tasks[k].error = "HTTP 404"

\* C9: while a run is active (isProcessing true) no step creates or destroys a
\* task: the collection keeps its tasks, in their order, until the done signal.
C9_CollectionKeptDuringRun ==
    [][ isProcessing =>
          /\ Len(tasks') = Len(tasks)
          /\ \A i \in 1..Len(tasks) : tasks'[i].id = tasks[i].id ]_vars

\* C10: within a batch a task's state only moves forward: in every step
\* (filter change, toggle, bulk selection, run, settlement, export) a task that
\* is completed or failed and stays in the collection keeps its state, and
\* with it its payload and error detail.
C10_SettledStateIsFinal ==
    [][ \A id \in Ids(tasks) \cap Ids(tasks') :
            IsSettled(TaskOf(tasks, id)) =>
                Recorded(TaskOf(tasks', id)) = Recorded(TaskOf(tasks, id)) ]_vars

\* A later run of the batch is in flight over a collection that holds a
\* completed or failed task of an earlier run, since deselected.
C10_Witness ==
    /\ isProcessing
    /\ fetching # {}
    /\ \E i \in 1..Len(tasks) :
           /\ IsSettled(tasks[i])
           /\ tasks[i].id \notin Ids(queue)
           /\ ~tasks[i].isSelected
    /\ \E c \in fetching : c.task.id \in Ids(tasks)

\* C11: in every reachable state every task has a payload if and only if it is
\* completed, and an error detail, not empty, if and only if it is failed.
C11_PayloadAndErrorMatchState ==
    \A i \in 1..Len(tasks) :
        /\ (tasks[i].blob # NoBlob) <=> (tasks[i].status = "completed")
        /\ (tasks[i].error # Undefined /\ tasks[i].error # "")
               <=> (tasks[i].status = "failed")

\* C12: at most one fetch per task.  In every reachable state, over any
\* sequence of runs, the fetches in flight are of distinct tasks, a task in
\* flight is no longer in the queue, the queue holds no task twice, and no
\* task in flight or queued is already completed or failed in the collection.
C12_AtMostOneFetchPerTask ==
    /\ \A c, d \in fetching : c.task.id = d.task.id => c = d
    /\ \A c \in fetching : c.task.id \notin Ids(remaining)
    /\ \A i, j \in 1..Len(remaining) : remaining[i].id = remaining[j].id => i = j
    /\ \A c \in fetching :
           c.task.id \in Ids(tasks) => TaskOf(tasks, c.task.id).status = "pending"
    /\ \A i \in 1..Len(remaining) :
           remaining[i].id \in Ids(tasks) =>
               TaskOf(tasks, remaining[i].id).status = "pending"

\* A later run has K fetches in flight while a task fetched by an earlier run,
\* still selected, is left alone.
C12_Witness ==
    /\ Cardinality(fetching) = MAX_CONCURRENT_DOWNLOADS
    /\ \E i \in 1..Len(tasks) :
           /\ IsSettled(tasks[i])
           /\ tasks[i].isSelected
           /\ tasks[i].id \notin Ids(queue)
           /\ \A c \in fetching : c.task.id # tasks[i].id

\* The last instant of the calendar day a date input names.
EndOfDay(day) == NewDate(day) + (DayLen - 1)

\* The date criterion as the filter is specified: true with no bound, false
\* for a task without a date under any bound, else within the bounds set.
dateMatches(task, sd, ed) ==
    IF sd = EmptyDate /\ ed = EmptyDate THEN TRUE
    ELSE IF task.registrationDate = NoDate THEN FALSE
    ELSE /\ sd # EmptyDate => task.registrationDate >= NewDate(sd)
         /\ ed # EmptyDate => task.registrationDate <= EndOfDay(ed)

\* A step in which the filter effect runs: a filter control, or an upload.
FilterApplied ==
    \/ Refilter(startDate', endDate', selectedSheets')
    \/ \E wb \in FilterWorkbooks \cup Workbooks : handleFileUpload(wb) /\ Len(wb) > 0

\* C13: after the filter is applied with bounds startDate, endDate and allowed
\* sheets G, every task has isSelected = (sheet in G) and dateMatches(task).
C13_FilterSelectsByGroupAndDate ==
    [][ FilterApplied =>
          \A i \in 1..Len(tasks') :
              tasks'[i].isSelected =
                  (/\ tasks'[i].sheet \in selectedSheets'
                   /\ dateMatches(tasks'[i], startDate', endDate')) ]_vars

\* C14: a step that applies the filter to the collection keeps its length and
\* order and changes no field of any task other than isSelected, for pending,
\* completed and failed tasks alike, with or without a run in flight.
C14_FilterWritesOnlySelected ==
    [][ Refilter(startDate', endDate', selectedSheets') =>
          /\ Len(tasks') = Len(tasks)
          /\ \A i \in 1..Len(tasks) :
                 [tasks'[i] EXCEPT !.isSelected = tasks[i].isSelected] = tasks[i]
      ]_vars

\* While a run is in flight every sheet has been filtered out: the task the
\* run has already recorded is deselected and keeps its outcome.
C14_Witness ==
    /\ isProcessing
    /\ fetching # {}
    /\ selectedSheets = {}
    /\ \A i \in 1..Len(tasks) : ~tasks[i].isSelected
    /\ \E i \in 1..Len(tasks) : IsSettled(tasks[i])

\* C15: in every reachable state, for every filter specification (bounds and
\* allowed sheets), the filter effect applied twice in a row gives every task
\* the isSelected value it has after one application.
C15_FilterIdempotent ==
    \A sd \in DateInputs, ed \in DateInputs, sheets \in SUBSET Range(Sheets) :
        LET once == FilterEffect(tasks, sd, ed, sheets, timezone)
        IN  FilterEffect(once, sd, ed, sheets, timezone) = once

\* A collection on which a filter has work to do: a date bound is set, a sheet
\* is filtered out, and manual toggles have left a matching task deselected
\* and a task the filter rejects selected.
C15_Witness ==
    /\ Len(tasks) > 0
    /\ endDate # EmptyDate
    /\ selectedSheets # availableSheets
    /\ \E i \in 1..Len(tasks) :
           /\ isMatch(tasks[i], startDate, endDate, selectedSheets, timezone)
           /\ ~tasks[i].isSelected
    /\ \E i \in 1..Len(tasks) :
           /\ ~isMatch(tasks[i], startDate, endDate, selectedSheets, timezone)
           /\ tasks[i].isSelected

\* A step of the manual selection: a per-task toggle or a bulk selection.
ManualSelection ==
    \/ \E id \in Ids(tasks) : toggleTaskSelection(id)
    \/ \E select \in BOOLEAN : toggleAllTasks(select)

\* C16: the isSelected value a manual toggle leaves on a task is kept by every
\* later step that is neither a filter application nor another manual
\* selection; and a filter application gives every task the value the filter
\* computes.
C16_ToggleKeptUntilRefilter ==
    [][ /\ ~(FilterApplied \/ ManualSelection) =>
               \A id \in Ids(tasks) \cap Ids(tasks') :
                   TaskOf(tasks', id).isSelected = TaskOf(tasks, id).isSelected
        /\ FilterApplied =>
               \A i \in 1..Len(tasks') :
                   tasks'[i].isSelected =
                       isMatch(tasks'[i], startDate', endDate', selectedSheets',
                               timezone)
      ]_vars

\* C17: toggleAllTasks(b) sets isSelected = b on every task of the collection,
\* whatever its sheet, date and state and whatever filter is configured, and
\* changes nothing else.
C17_BulkSelectionUnconditional ==
    [][ \A b \in BOOLEAN :
          toggleAllTasks(b) =>
            /\ Len(tasks') = Len(tasks)
            /\ \A i \in 1..Len(tasks) :
                   /\ tasks'[i].isSelected = b
                   /\ [tasks'[i] EXCEPT !.isSelected = tasks[i].isSelected] = tasks[i]
      ]_vars

\* Every task is selected although the filter allows no sheet: a completed or
\* failed task and a pending one.
C17_Witness ==
    /\ activeTab = "process"
    /\ selectedSheets = {}
    /\ Len(tasks) = MaxRows
    /\ \A i \in 1..Len(tasks) : tasks[i].isSelected
    /\ \E i \in 1..Len(tasks) : IsSettled(tasks[i])
    /\ \E i \in 1..Len(tasks) : tasks[i].status = "pending"

\* C18: toggleTaskSelection(id) flips isSelected on the task with that id and
\* changes nothing else: every other field of that task and every field of
\* every other task are kept, for completed and failed tasks as for pending.
C18_ToggleFlipsOneFlag ==
    [][ \A id \in Ids(tasks) :
          toggleTaskSelection(id) =>
            /\ Len(tasks') = Len(tasks)
            /\ \A i \in 1..Len(tasks) :
                   IF tasks[i].id = id
                   THEN /\ tasks'[i].isSelected = ~tasks[i].isSelected
                        /\ [tasks'[i] EXCEPT !.isSelected = tasks[i].isSelected]
                               = tasks[i]
                   ELSE tasks'[i] = tasks[i]
      ]_vars

\* With every sheet allowed, a failed task is deselected and keeps its state,
\* while a completed task of the collection is selected and keeps its payload.
C18_Witness ==
    /\ selectedSheets = availableSheets
    /\ \E i, j \in 1..Len(tasks) :
           /\ tasks[i].status = "completed"
           /\ tasks[i].blob # NoBlob
           /\ tasks[i].isSelected
           /\ ~tasks[j].isSelected
           /\ tasks[j].status = "failed"

\* The instant t falls on the calendar day both in UTC and in local time.
OnDay(t, day) ==
    /\ t \div DayLen = day
    /\ (t + timezone) \div DayLen = day

\* C19: after the filter is applied with an end bound endDate, a task on an
\* allowed sheet and within the start bound is selected when its
\* registrationDate falls on the calendar day endDate, up to its last instant,
\* and is not selected when it is dated one instant after the end of that day.
C19_EndBoundThroughEndOfDay ==
    [][ (FilterApplied /\ endDate' # EmptyDate) =>
          \A i \in 1..Len(tasks') :
              LET t == tasks'[i] IN
              (/\ t.sheet \in selectedSheets'
               /\ t.registrationDate # NoDate
               /\ startDate' # EmptyDate => t.registrationDate >= NewDate(startDate'))
              => /\ OnDay(t.registrationDate, endDate') => t.isSelected
                 /\ t.registrationDate = EndOfDay(endDate') + 1 => ~t.isSelected
      ]_vars

\* C20 as stated: in every reachable state completedCount + failedCount +
\* skippedCount + pendingSelectedCount <= selectedCount <= total.
C20_CountsWithinSelected ==
    LET s == stats(tasks) IN
    /\ s.completed + s.failed + s.skipped + s.pending <= s.selected
    /\ s.selected <= s.total

\* C20, amended: in every reachable state the four state counts add up to at
\* most total, pendingSelectedCount <= selectedCount <= total, selectedCount
\* is the number of tasks with isSelected whatever their state, and the four
\* counts exceed selectedCount by exactly the number of deselected tasks that
\* are completed, failed or skipped.
C20_CountsWithinTotal ==
    LET s == stats(tasks)
        deselectedDone == Cardinality({i \in 1..Len(tasks) :
                              /\ ~tasks[i].isSelected
                              /\ tasks[i].status \in {"completed", "failed", "skipped"}})
    IN  /\ s.completed + s.failed + s.skipped + s.pending <= s.total
        /\ s.pending <= s.selected
        /\ s.selected <= s.total
        /\ s.selected = Cardinality({i \in 1..Len(tasks) : tasks[i].isSelected})
        /\ s.completed + s.failed + s.skipped + s.pending
               = s.selected + deselectedDone

\* A completed task has been deselected while a pending task is selected: the
\* state counts exceed the selected count.
C20_Witness ==
    /\ stats(tasks).completed = 1
    /\ stats(tasks).pending = 1
    /\ stats(tasks).selected = 1
    /\ stats(tasks).total = 2

\* C21: an export requested while the collection has no completed task ends
\* with the nothing-to-export alert, hands no archive to the generator, leaves
\* every task as it was and leaves isGeneratingZip false; and an archive that
\* is downloaded holds at least one image.
C21_NothingToExport ==
    [][ /\ (generateZip /\ stats(tasks).completed = 0) =>
               /\ signal' = "alert: No images available to zip."
               /\ zip' = {}
               /\ ~isGeneratingZip'
               /\ tasks' = tasks
        /\ signal' = "download" =>
               /\ zip # {}
               /\ \A z \in zip : z.files # {}
      ]_vars

\* The export was requested over a collection whose tasks have all failed.
C21_Witness ==
    /\ signal = "alert: No images available to zip."
    /\ ~isGeneratingZip
    /\ zip = {}
    /\ Len(tasks) = MAX_CONCURRENT_DOWNLOADS + 1
    /\ \A i \in 1..Len(tasks) : tasks[i].status = "failed"

\* The positions of the collection whose task is failed and selected.
FailedSelectedAt(ts) ==
    {i \in 1..Len(ts) : ts[i].status = "failed" /\ ts[i].isSelected}

\* The report line of a task: sheet, full name, file name, URL, error, date.
ReportLine(t) ==
    <<t.sheet, t.fullName, t.filename, t.url, t.error,
      IF t.registrationDate = NoDate THEN EmptyDate
      ELSE t.registrationDate \div DayLen>>

\* C22: the archive an export builds has a failure report with exactly one
\* row per task failed and selected at export time, in collection order, and
\* none for a failed task that is deselected; the report file is in the
\* archive if and only if there is such a task.
C22_ReportRowsAreFailedSelected ==
    [][ (generateZip /\ zip' # {}) =>
          \A z \in zip' :
              /\ Len(z.report) = Cardinality(FailedSelectedAt(tasks))
              /\ \E f \in [1..Len(z.report) -> FailedSelectedAt(tasks)] :
                     /\ \A m, n \in 1..Len(z.report) : m < n => f[m] < f[n]
                     /\ \A m \in 1..Len(z.report) :
                            z.report[m] = ReportLine(tasks[f[m]])
              /\ z.hasReport <=> FailedSelectedAt(tasks) # {}
      ]_vars

\* An archive is being generated whose report has one row, for the failed task
\* that is selected, while another failed task is deselected.
C22_Witness ==
    /\ isGeneratingZip
    /\ \E z \in zip : z.hasReport /\ Len(z.report) = 1
    /\ \E i, j \in 1..Len(tasks) :
           /\ tasks[i].status = "failed" /\ tasks[i].isSelected
           /\ tasks[j].status = "failed" /\ ~tasks[j].isSelected
    /\ signal = "none"
    /\ activeTab = "results"

\* The positions of the completed tasks of ts filed under the path.
CompletedAt(ts, path) ==
    {i \in 1..Len(ts) :
        ts[i].status = "completed" /\ <<ts[i].sheet, ts[i].filename>> = path}

\* The largest element of a non-empty set of positions.
Last(S) == CHOOSE i \in S : \A j \in S : j <= i

\* C23: the image entries of the archive an export builds are exactly the
\* (sheet, filename) pairs of the completed tasks, selected or not, one entry
\* per pair, each holding the payload of the last completed task of the
\* collection with that pair.
C23_ArchiveEntriesLastWriteWins ==
    [][ (generateZip /\ zip' # {}) =>
          \A z \in zip' :
              /\ {f.path : f \in z.files} =
                     {<<tasks[i].sheet, tasks[i].filename>> :
                          i \in {j \in 1..Len(tasks) : tasks[j].status = "completed"}}
              /\ \A f, g \in z.files : f.path = g.path => f = g
              /\ \A f \in z.files :
                     {f.blob} = {tasks[Last(CompletedAt(tasks, f.path))].blob}
      ]_vars

\* An archive is being generated from a collection in which two completed
\* tasks share sheet and file name and the later one is deselected: the one
\* entry of that path holds the later task's payload.
C23_Witness ==
    /\ isGeneratingZip
    /\ \E i, j \in 1..Len(tasks) :
           /\ i < j
           /\ tasks[i].status = "completed" /\ tasks[j].status = "completed"
           /\ tasks[i].sheet = tasks[j].sheet
           /\ tasks[i].filename = tasks[j].filename
           /\ tasks[i].blob # tasks[j].blob
           /\ ~tasks[j].isSelected
           /\ \E z \in zip : \E f \in z.files :
                  /\ f.path = <<tasks[j].sheet, tasks[j].filename>>
                  /\ f.blob = tasks[j].blob

\* C24 as stated: an export performed after a run yields a failure report
\* with a row holding the error detail of every task recorded as failed.
C24_EveryFailureReported ==
    [][ generateZip =>
          \A i \in 1..Len(tasks) :
              tasks[i].status = "failed" =>
                  /\ zip' # {}
                  /\ \A z \in zip' : \E m \in 1..Len(z.report) :
                         z.report[m] = ReportLine(tasks[i])
      ]_vars

\* C24, amended: an export performed while the collection has a completed task
\* builds an archive whose failure report is present and has a row with the
\* error detail of every task that is failed and selected at export time; a
\* failed task that is deselected has no row, and with no completed task the
\* export builds no archive, hence no report.
C24_SelectedFailuresReported ==
    [][ generateZip =>
          /\ stats(tasks).completed > 0 =>
                 /\ zip' # {}
                 /\ \A z \in zip' : \A i \in 1..Len(tasks) :
                        /\ (tasks[i].status = "failed" /\ tasks[i].isSelected) =>
                               /\ z.hasReport
                               /\ \E m \in 1..Len(z.report) :
                                      /\ z.report[m] = ReportLine(tasks[i])
                                      /\ z.report[m][5] = tasks[i].error
                        /\ (tasks[i].status = "failed" /\ ~tasks[i].isSelected) =>
                               \A m \in 1..Len(z.report) :
                                   z.report[m][4] # tasks[i].url
          /\ stats(tasks).completed = 0 => zip' = {}
      ]_vars

\* An archive is being generated whose report has the rows of two failed and
\* selected tasks, with different error details.
C24_Witness ==
    /\ isGeneratingZip
    /\ \E z \in zip :
           /\ Len(z.report) = 2
           /\ z.report[1][5] = "CORS/Network Error"
           /\ z.report[2][5] = "HTTP 404"

\* C25: a fetch answered with a success status records the task completed,
\* with the body as payload, if and only if the body has an image type or at
\* least 100 bytes, and otherwise failed with the cause 'Invalid image'; an
\* error status records the task failed with the cause 'HTTP <status>'; and a
\* task whose fetch is in flight has nothing recorded yet.
C25_RecordFollowsValidation ==
    [][ /\ \A c \in fetching, o \in Responses :
             (FetchSettles(c, o) /\ c.task.id \in Ids(tasks)) =>
                LET t == TaskOf(tasks', c.task.id) IN
                IF o.status \in {200, 204}
                THEN IF o.type \in {"image/jpeg", "image/png"} \/ o.size >= 100
                     THEN /\ t.status = "completed"
                          /\ t.blob = {[url |-> c.task.url, type |-> o.type,
                                        size |-> o.size]}
                          /\ t.error = Undefined
                     ELSE /\ t.status = "failed"
                          /\ t.error = "Invalid image"
                          /\ t.blob = NoBlob
                ELSE /\ t.status = "failed"
                     /\ t.error = (IF o.status = 404 THEN "HTTP 404" ELSE "HTTP 500")
                     /\ t.blob = NoBlob
        /\ \A c \in fetching :
               c.task.id \in Ids(tasks) =>
                   Recorded(TaskOf(tasks, c.task.id)) = <<"pending", NoBlob, Undefined>>
      ]_vars

\* One task is completed with a body that is no image but has 100 bytes, the
\* other is failed as an invalid image.
C25_Witness ==
    \E i, j \in 1..Len(tasks) :
        /\ tasks[i].status = "completed"
        /\ \E b \in tasks[i].blob : b.type = "text/html" /\ b.size = 100
        /\ tasks[j].status = "failed"
        /\ tasks[j].error = "Invalid image"

\* C26: the step that records a fetch outcome changes only the state, payload
\* and error detail of the task: the isSelected flag each task has when the
\* outcome is recorded, a toggle or filter result that arrived while the fetch
\* was in flight included, is the flag it has afterwards.
C26_RecordKeepsSelection ==
    [][ \A c \in fetching, o \in FetchOutcomes :
          FetchSettles(c, o) =>
            /\ Len(tasks') = Len(tasks)
            /\ \A i \in 1..Len(tasks) :
                   tasks'[i].isSelected = tasks[i].isSelected
      ]_vars

\* C27: at most one run is active at any time.  A step of startProcessing is
\* taken only while isProcessing is false and no chain of an earlier run is
\* alive; every fetch in flight is of a task of the one snapshot held; and
\* while isProcessing is false no fetch is in flight.
C27_AtMostOneRun ==
    [][ /\ startProcessing =>
               /\ ~isProcessing
               /\ fetching = {}
               /\ remaining = <<>>
               /\ activeDownloads = {}
        /\ \A c \in fetching' : \E i \in 1..Len(queue') : queue'[i] = c.task
        /\ ~isProcessing' => fetching' = {}
      ]_vars

\* A second run of the batch is in flight, over the one task the first run
\* left out, after the first run has recorded the other tasks.
C27_Witness ==
    /\ isProcessing
    /\ promise = "pending"
    /\ Len(queue) = 1
    /\ Cardinality(fetching) = 1
    /\ stats(tasks).completed + stats(tasks).failed = MAX_CONCURRENT_DOWNLOADS
    /\ Len(tasks) = MAX_CONCURRENT_DOWNLOADS + 1

\* C28: when every fetch a run has issued has resolved, the run has signalled
\* done.  A run with no fetch in flight has nothing left that could end it, so
\* the claim requires that no reachable state has isProcessing true without a
\* fetch in flight.
C28_RunEndsWhenFetchesResolve ==
    isProcessing => fetching # {}

====
